---- MODULE Spec2Model ----
(***************************************************************************)
(* Model of src/shared_ptr.h: SharedPtr<T>, WeakPtr<T>, Counter and        *)
(* MakeShared.                                                             *)
(*                                                                         *)
(* Handles live in numbered slots (the variables of a client program). A   *)
(* slot is either not constructed (live = FALSE) or holds the two fields   *)
(* ptr_ and counter_ of the handle. The heap holds the managed objects     *)
(* (new T) and the control blocks (new Counter). Every allocation gets an  *)
(* identity that was never used before.                                    *)
(*                                                                         *)
(* The program is single-threaded, so each member function is one atomic   *)
(* step. size_t counters are held as integers: a count is only ever        *)
(* incremented, decremented and compared with 0, so the integer n stands   *)
(* for the size_t value n mod 2^w (a decrement of 0 gives -1, which stands *)
(* for SIZE_MAX, and incrementing it gives 0 again).                       *)
(***************************************************************************)
EXTENDS Integers, FiniteSets, TLC

\* ------------------------------------------------------------------ bounds
NumStrong == 2      \* SharedPtr variables of the client program
NumWeak == 2        \* WeakPtr variables of the client program
MaxObjs == 2        \* objects (and control blocks) ever allocated

NULL == 0           \* nullptr

SH == 1..NumStrong
WH == 1..NumWeak
Obj == 1..MaxObjs
Blk == 1..MaxObjs

VARIABLES
  sp,       \* sp[i]: SharedPtr slot i, [live, ptr_, counter_]
  wp,       \* wp[k]: WeakPtr slot k, [live, ptr_, counter_]
  objs,     \* objs[o]: managed object o, [state, redeleted, self]; self is a
            \* WeakPtr<T> data member of the object
  ctrs,     \* ctrs[c]: Counter c, [state, strong_count, weak_count, refreed,
            \* reachedZero, uaf, underflow]
  last,     \* the member function executed last: [op, dst, src, raised], dst the
            \* slot of *this (of the result, for Lock), src the slot of the
            \* argument (the object, for a T* argument), raised: it threw BadWeakPtr
  aborted   \* the process was terminated by the runtime (undefined behaviour detected)

vars == <<sp, wp, objs, ctrs, last, aborted>>

\* A slot holding no handle object.
NoHandle == [live |-> FALSE, ptr_ |-> NULL, counter_ |-> NULL]

\* SharedPtr() / WeakPtr(): ptr_(nullptr), counter_(nullptr).
NullHandle == [live |-> TRUE, ptr_ |-> NULL, counter_ |-> NULL]

Handle(p, c) == [live |-> TRUE, ptr_ |-> p, counter_ |-> c]

\* The heap as a value passed through the member functions. ub records that
\* the step executed undefined behaviour (delete of a deleted object, access
\* to a deleted Counter).
Heap == [objs |-> objs, ctrs |-> ctrs, ub |-> FALSE]

\* ---------------------------------------------------------------- Counter
\* Counter(): strong_count(1), weak_count(0), in fresh storage c.
NewCounter(h, c) ==
  [h EXCEPT !.ctrs[c] = [state |-> "alloc", strong_count |-> 1, weak_count |-> 0,
                         refreed |-> FALSE, reachedZero |-> FALSE,
                         uaf |-> FALSE, underflow |-> FALSE]]

\* Any read or write of *c: undefined when c has been deleted (uaf remembers
\* it).
Touch(h, c) ==
  [h EXCEPT !.ub = @ \/ h.ctrs[c].state # "alloc",
            !.ctrs[c].uaf = @ \/ h.ctrs[c].state # "alloc"]

\* Faulty variant of IncStrong: the increment is forgotten.
IncStrong_forgotten(h, c) == Touch(h, c)

\* ++(counter_->strong_count)
IncStrong(h, c) ==
  [Touch(h, c) EXCEPT !.ctrs[c].strong_count = @ + 1]

\* ++(counter_->weak_count)
IncWeak(h, c) ==
  [Touch(h, c) EXCEPT !.ctrs[c].weak_count = @ + 1]

\* --(counter_->strong_count); reachedZero remembers that the result was 0,
\* underflow that the count was 0 before the decrement.
DecStrong(h, c) ==
  [Touch(h, c) EXCEPT !.ctrs[c].strong_count = @ - 1,
                      !.ctrs[c].reachedZero = @ \/ (h.ctrs[c].strong_count - 1 = 0),
                      !.ctrs[c].underflow = @ \/ (h.ctrs[c].strong_count = 0)]

\* --(counter_->weak_count); underflow remembers that the count was 0
\* before the decrement.
DecWeak(h, c) ==
  [Touch(h, c) EXCEPT !.ctrs[c].weak_count = @ - 1,
                      !.ctrs[c].underflow = @ \/ (h.ctrs[c].weak_count = 0)]

\* delete counter_; deleting a Counter a second time is undefined (refreed
\* remembers it).
DeleteCounter(h, c) ==
  [h EXCEPT !.ctrs[c].state = "freed",
            !.ctrs[c].refreed = @ \/ h.ctrs[c].state # "alloc",
            !.ub = @ \/ h.ctrs[c].state # "alloc"]

\* new T: the first storage never used.
FreshObjs == {o \in Obj : objs[o].state = "unalloc"}
FreshObj == CHOOSE o \in FreshObjs : \A q \in FreshObjs : o <= q
NewObj(h, o) == [h EXCEPT !.objs[o].state = "alive", !.objs[o].self = NullHandle]

\* new Counter: the first storage never used.
FreshCtr(h) ==
  CHOOSE c \in Blk : h.ctrs[c].state = "unalloc"
                     /\ \A d \in Blk : h.ctrs[d].state = "unalloc" => c <= d
CanAlloc == FreshObjs # {} /\ \E c \in Blk : ctrs[c].state = "unalloc"

\* Faulty variant of WeakPtr::Release: the Counter is never deleted.
WeakRelease_leak(h, x) ==
  IF x.counter_ = NULL THEN h ELSE DecWeak(h, x.counter_)

\* --------------------------------------------------------- WeakPtr::Release
WeakRelease(h, x) ==
  IF x.counter_ = NULL THEN h
  ELSE LET c == x.counter_
           h1 == DecWeak(h, c)
       IN IF h1.ctrs[c].weak_count = 0 /\ h1.ctrs[c].strong_count = 0
          THEN DeleteCounter(h1, c)
          ELSE h1

\* delete ptr_: runs the destructor of the object, which destroys its data
\* member self (~WeakPtr, that is WeakPtr::Release), and frees the object.
\* Deleting nullptr does nothing; deleting an object a second time is
\* undefined (redeleted remembers it).
DeleteObj(h, p) ==
  IF p = NULL THEN h
  ELSE IF h.objs[p].state # "alive"
       THEN [h EXCEPT !.objs[p].state = "deleted",
                      !.objs[p].redeleted = TRUE,
                      !.ub = TRUE]
       ELSE [WeakRelease(h, h.objs[p].self) EXCEPT !.objs[p].state = "deleted",
                                                   !.objs[p].self = NoHandle]

\* ------------------------------------------------------- SharedPtr::Release
\* The heap when Release starts to execute undefined behaviour, strong_count
\* already decremented: inside `delete ptr_`, or else at the read of
\* counter_->weak_count that follows it.
SharedRelease_fault(h, x) ==
  LET h2 == DeleteObj(DecStrong(h, x.counter_), x.ptr_)
  IN IF h2.ub THEN h2 ELSE Touch(h2, x.counter_)

\* Release of x in heap h reads counter_->weak_count from a Counter that the
\* destructor of the object has just deleted: the value read is undefined.
SharedRelease_stale(h, x) ==
  /\ x.counter_ # NULL
  /\ h.ctrs[x.counter_].state = "alloc"
  /\ h.ctrs[x.counter_].strong_count = 1
  /\ DeleteObj(DecStrong(h, x.counter_), x.ptr_).ctrs[x.counter_].state = "freed"

SharedRelease(h, x) ==
  IF x.counter_ = NULL THEN h
  ELSE LET c == x.counter_
           h1 == DecStrong(h, c)
       IN IF h1.ctrs[c].strong_count # 0 THEN h1
          ELSE LET h2 == DeleteObj(h1, x.ptr_)
               IN IF h2.ctrs[c].weak_count = 0
                  THEN DeleteCounter(Touch(h2, c), c)
                  ELSE Touch(h2, c)

\* ------------------------------------------------------------ observers
\* SharedPtr::UseCount / WeakPtr::UseCount
UseCount(h, x) == IF x.counter_ # NULL THEN h.ctrs[x.counter_].strong_count ELSE 0

\* WeakPtr::Expired
Expired(h, x) == UseCount(h, x) = 0

\* SharedPtr::Get
Get(x) == x.ptr_

\* SharedPtr::operator bool
Bool(x) == x.ptr_ # NULL

\* ------------------------------------------------------------ step endings
Op(op, dst, src, raised) == [op |-> op, dst |-> dst, src |-> src, raised |-> raised]

\* The member function returns (or throws) with heap h and the slots given.
Finish(o, h, sp2, wp2) ==
  /\ sp' = sp2
  /\ wp' = wp2
  /\ objs' = h.objs
  /\ ctrs' = h.ctrs
  /\ last' = o
  /\ aborted' = FALSE

\* The runtime detects the undefined behaviour and terminates the process
\* at that point, with heap h; no handle was written yet.
Crash(o, h) ==
  /\ aborted' = TRUE
  /\ objs' = h.objs
  /\ ctrs' = h.ctrs
  /\ last' = o
  /\ UNCHANGED <<sp, wp>>

\* A step that ran SharedPtr::Release on x in heap h0 and then completed
\* with heap h: when Release executed undefined behaviour the build either
\* goes on with the memory as it is, or stops there; a weak_count read from
\* a deleted Counter is either the 0 last stored there (h) or a value other
\* than 0, and then the Counter is not deleted a second time.
Outcome(o, x, h0, h, sp2, wp2) ==
  \/ Finish(o, h, sp2, wp2)
  \/ /\ h.ub
     /\ Crash(o, SharedRelease_fault(h0, x))
  \/ /\ SharedRelease_stale(h0, x)
     /\ Finish(o, [h EXCEPT !.ctrs[x.counter_].refreed = FALSE], sp2, wp2)

\* ------------------------------------------------------------------- Init
Init ==
  /\ sp = [i \in SH |-> NoHandle]
  /\ wp = [k \in WH |-> NoHandle]
  /\ objs = [o \in Obj |-> [state |-> "unalloc", redeleted |-> FALSE, self |-> NoHandle]]
  /\ ctrs = [c \in Blk |-> [state |-> "unalloc", strong_count |-> 0, weak_count |-> 0,
                            refreed |-> FALSE, reachedZero |-> FALSE,
                            uaf |-> FALSE, underflow |-> FALSE]]
  /\ last = Op("init", 0, 0, FALSE)
  /\ aborted = FALSE

\* ------------------------------------------------------ SharedPtr members
\* SharedPtr(): a null handle in slot i.
SharedPtr_default(i) ==
  /\ ~aborted
  /\ ~sp[i].live
  /\ Finish(Op("SharedPtr()", i, 0, FALSE), Heap, [sp EXCEPT ![i] = NullHandle], wp)

\* Faulty variant of SharedPtr(T*): a Counter is allocated for nullptr too.
SharedPtr_ptr_alwayscounter(i, fresh) ==
  /\ ~aborted
  /\ ~sp[i].live
  /\ CanAlloc
  /\ LET p == IF fresh THEN FreshObj ELSE NULL
         h1 == IF fresh THEN NewObj(Heap, FreshObj) ELSE Heap
         c == FreshCtr(h1)
     IN Finish(Op("SharedPtr(T*)", i, p, FALSE), NewCounter(h1, c),
               [sp EXCEPT ![i] = Handle(p, c)], wp)

\* explicit SharedPtr(T* ptr), called with nullptr or with a new object:
\* counter_(ptr ? new Counter() : nullptr).
SharedPtr_ptr(i, fresh) ==
  /\ ~aborted
  /\ ~sp[i].live
  /\ IF fresh
     THEN /\ CanAlloc
          /\ LET h1 == NewObj(Heap, FreshObj)
                 c == FreshCtr(h1)
             IN Finish(Op("SharedPtr(T*)", i, FreshObj, FALSE), NewCounter(h1, c),
                       [sp EXCEPT ![i] = Handle(FreshObj, c)], wp)
     ELSE Finish(Op("SharedPtr(T*)", i, NULL, FALSE), Heap,
                 [sp EXCEPT ![i] = NullHandle], wp)

\* MakeShared<T>(args...): SharedPtr<T>(new T(args...)), returned into slot i.
MakeShared(i) ==
  /\ ~aborted
  /\ ~sp[i].live
  /\ CanAlloc
  /\ LET h1 == NewObj(Heap, FreshObj)
         c == FreshCtr(h1)
     IN Finish(Op("MakeShared", i, FreshObj, FALSE), NewCounter(h1, c),
               [sp EXCEPT ![i] = Handle(FreshObj, c)], wp)

\* SharedPtr(const SharedPtr& other): slot i from slot j.
SharedPtr_copy(i, j) ==
  /\ ~aborted
  /\ ~sp[i].live /\ sp[j].live
  /\ LET c == sp[j].counter_
         h1 == IF c # NULL THEN IncStrong(Heap, c) ELSE Heap
     IN Finish(Op("SharedPtr(const SharedPtr&)", i, j, FALSE), h1,
               [sp EXCEPT ![i] = Handle(sp[j].ptr_, c)], wp)

\* Faulty variant of SharedPtr(SharedPtr&&): other is left as it was.
SharedPtr_move_keepsource(i, j) ==
  /\ ~aborted
  /\ ~sp[i].live /\ sp[j].live
  /\ Finish(Op("SharedPtr(SharedPtr&&)", i, j, FALSE), Heap,
            [sp EXCEPT ![i] = Handle(sp[j].ptr_, sp[j].counter_)], wp)

\* SharedPtr(SharedPtr&& other): slot i from slot j, j becomes null.
SharedPtr_move(i, j) ==
  /\ ~aborted
  /\ ~sp[i].live /\ sp[j].live
  /\ Finish(Op("SharedPtr(SharedPtr&&)", i, j, FALSE), Heap,
            [sp EXCEPT ![i] = Handle(sp[j].ptr_, sp[j].counter_), ![j] = NullHandle], wp)

\* SharedPtr(const WeakPtr<T>& weak_ptr): slot i from weak slot k. When the
\* constructor throws, no handle comes to exist in slot i.
SharedPtr_weak(i, k) ==
  /\ ~aborted
  /\ ~sp[i].live /\ wp[k].live
  /\ IF Expired(Heap, wp[k])
     THEN Finish(Op("SharedPtr(const WeakPtr&)", i, k, TRUE), Heap, sp, wp)
     ELSE Finish(Op("SharedPtr(const WeakPtr&)", i, k, FALSE),
                 IncStrong(Heap, wp[k].counter_),
                 [sp EXCEPT ![i] = Handle(wp[k].ptr_, wp[k].counter_)], wp)

\* Faulty variant of operator=(const WeakPtr<T>&): Release() runs before
\* the Expired() test.
SharedPtr_assign_weak_releasefirst(i, k) ==
  /\ ~aborted
  /\ sp[i].live /\ wp[k].live
  /\ LET h1 == SharedRelease(Heap, sp[i])
     IN IF Expired(h1, wp[k])
        THEN Outcome(Op("SharedPtr=(const WeakPtr&)", i, k, TRUE), sp[i], Heap, h1,
                     [sp EXCEPT ![i] = NullHandle], wp)
        ELSE Outcome(Op("SharedPtr=(const WeakPtr&)", i, k, FALSE), sp[i], Heap,
                     IncStrong(h1, wp[k].counter_),
                     [sp EXCEPT ![i] = Handle(wp[k].ptr_, wp[k].counter_)], wp)

\* SharedPtr& operator=(const WeakPtr<T>& weak_ptr)
SharedPtr_assign_weak(i, k) ==
  /\ ~aborted
  /\ sp[i].live /\ wp[k].live
  /\ IF Expired(Heap, wp[k])
     THEN Finish(Op("SharedPtr=(const WeakPtr&)", i, k, TRUE), Heap, sp, wp)
     ELSE LET h1 == SharedRelease(Heap, sp[i])
          IN Outcome(Op("SharedPtr=(const WeakPtr&)", i, k, FALSE), sp[i], Heap,
                     IncStrong(h1, wp[k].counter_),
                     [sp EXCEPT ![i] = Handle(wp[k].ptr_, wp[k].counter_)], wp)

\* Faulty variant of operator=(const SharedPtr&): the test this != &other
\* is missing.
SharedPtr_assign_copy_noselfcheck(i, j) ==
  /\ ~aborted
  /\ sp[i].live /\ sp[j].live
  /\ LET h1 == SharedRelease(Heap, sp[i])
         c == sp[j].counter_
         h2 == IF c # NULL THEN IncStrong(h1, c) ELSE h1
     IN Outcome(Op("SharedPtr=(const SharedPtr&)", i, j, FALSE), sp[i], Heap, h2,
                [sp EXCEPT ![i] = Handle(sp[j].ptr_, c)], wp)

\* SharedPtr& operator=(const SharedPtr& other); this == &other is i = j.
SharedPtr_assign_copy(i, j) ==
  /\ ~aborted
  /\ sp[i].live /\ sp[j].live
  /\ IF i # j
     THEN LET h1 == SharedRelease(Heap, sp[i])
              c == sp[j].counter_
              h2 == IF c # NULL THEN IncStrong(h1, c) ELSE h1
          IN Outcome(Op("SharedPtr=(const SharedPtr&)", i, j, FALSE), sp[i], Heap, h2,
                     [sp EXCEPT ![i] = Handle(sp[j].ptr_, c)], wp)
     ELSE Finish(Op("SharedPtr=(const SharedPtr&)", i, j, FALSE), Heap, sp, wp)

\* Faulty variant of operator=(SharedPtr&&): other is left as it was.
SharedPtr_assign_move_keepsource(i, j) ==
  /\ ~aborted
  /\ sp[i].live /\ sp[j].live
  /\ IF i # j
     THEN Outcome(Op("SharedPtr=(SharedPtr&&)", i, j, FALSE), sp[i], Heap,
                  SharedRelease(Heap, sp[i]),
                  [sp EXCEPT ![i] = Handle(sp[j].ptr_, sp[j].counter_)], wp)
     ELSE Finish(Op("SharedPtr=(SharedPtr&&)", i, j, FALSE), Heap, sp, wp)

\* SharedPtr& operator=(SharedPtr&& other)
SharedPtr_assign_move(i, j) ==
  /\ ~aborted
  /\ sp[i].live /\ sp[j].live
  /\ IF i # j
     THEN Outcome(Op("SharedPtr=(SharedPtr&&)", i, j, FALSE), sp[i], Heap,
                  SharedRelease(Heap, sp[i]),
                  [sp EXCEPT ![i] = Handle(sp[j].ptr_, sp[j].counter_),
                             ![j] = NullHandle], wp)
     ELSE Finish(Op("SharedPtr=(SharedPtr&&)", i, j, FALSE), Heap, sp, wp)

\* ~SharedPtr(): the handle of slot i ceases to exist.
SharedPtr_dtor(i) ==
  /\ ~aborted
  /\ sp[i].live
  /\ Outcome(Op("~SharedPtr", i, 0, FALSE), sp[i], Heap, SharedRelease(Heap, sp[i]),
             [sp EXCEPT ![i] = NoHandle], wp)

\* The call of Reset as the client writes it.
ResetCall(arg) ==
  IF arg = "null" THEN "SharedPtr::Reset(nullptr)"
  ELSE IF arg = "same" THEN "SharedPtr::Reset(Get())"
  ELSE "SharedPtr::Reset(new T)"

\* Faulty variant of Reset: the test ptr != ptr_ is missing.
SharedPtr_Reset_noguard(i, arg) ==
  /\ ~aborted
  /\ sp[i].live
  /\ arg = "new" => CanAlloc
  /\ arg = "same" => sp[i].ptr_ # NULL
  /\ LET ptr == IF arg = "null" THEN NULL ELSE IF arg = "same" THEN sp[i].ptr_ ELSE FreshObj
         h0 == IF arg = "new" THEN NewObj(Heap, FreshObj) ELSE Heap
         o == Op(ResetCall(arg), i, ptr, FALSE)
         h1 == SharedRelease(h0, sp[i])
     IN IF ptr # NULL
        THEN LET c == FreshCtr(h1)
             IN Outcome(o, sp[i], h0, NewCounter(h1, c),
                        [sp EXCEPT ![i] = Handle(ptr, c)], wp)
        ELSE Outcome(o, sp[i], h0, h1, [sp EXCEPT ![i] = NullHandle], wp)

\* void Reset(T* ptr = nullptr), called with nullptr (arg = "null"), with a
\* new object (arg = "new") or with the handle's own Get() (arg = "same").
SharedPtr_Reset(i, arg) ==
  /\ ~aborted
  /\ sp[i].live
  /\ arg = "new" => CanAlloc
  /\ arg = "same" => sp[i].ptr_ # NULL
  /\ LET ptr == IF arg = "null" THEN NULL ELSE IF arg = "same" THEN sp[i].ptr_ ELSE FreshObj
         h0 == IF arg = "new" THEN NewObj(Heap, FreshObj) ELSE Heap
         o == Op(ResetCall(arg), i, ptr, FALSE)
     IN IF ptr # sp[i].ptr_
        THEN LET h1 == SharedRelease(h0, sp[i])
             IN IF ptr # NULL
                THEN LET c == FreshCtr(h1)
                     IN Outcome(o, sp[i], h0, NewCounter(h1, c),
                                [sp EXCEPT ![i] = Handle(ptr, c)], wp)
                ELSE Outcome(o, sp[i], h0, h1, [sp EXCEPT ![i] = NullHandle], wp)
        ELSE Finish(o, h0, sp, wp)

\* Faulty variant of SharedPtr::Swap: only ptr_ is exchanged.
SharedPtr_Swap_ptronly(i, j) ==
  /\ ~aborted
  /\ sp[i].live /\ sp[j].live
  /\ Finish(Op("SharedPtr::Swap", i, j, FALSE), Heap,
            [sp EXCEPT ![i].ptr_ = sp[j].ptr_, ![j].ptr_ = sp[i].ptr_], wp)

\* void Swap(SharedPtr& other)
SharedPtr_Swap(i, j) ==
  /\ ~aborted
  /\ sp[i].live /\ sp[j].live
  /\ Finish(Op("SharedPtr::Swap", i, j, FALSE), Heap,
            [sp EXCEPT ![i] = sp[j], ![j] = sp[i]], wp)

\* -------------------------------------------------------- WeakPtr members
\* WeakPtr(): a null handle in weak slot k.
WeakPtr_default(k) ==
  /\ ~aborted
  /\ ~wp[k].live
  /\ Finish(Op("WeakPtr()", k, 0, FALSE), Heap, sp, [wp EXCEPT ![k] = NullHandle])

\* WeakPtr(const WeakPtr& other): weak slot k from weak slot m.
WeakPtr_copy(k, m) ==
  /\ ~aborted
  /\ ~wp[k].live /\ wp[m].live
  /\ LET c == wp[m].counter_
         h1 == IF c # NULL THEN IncWeak(Heap, c) ELSE Heap
     IN Finish(Op("WeakPtr(const WeakPtr&)", k, m, FALSE), h1, sp,
               [wp EXCEPT ![k] = Handle(wp[m].ptr_, c)])

\* WeakPtr(WeakPtr&& other)
WeakPtr_move(k, m) ==
  /\ ~aborted
  /\ ~wp[k].live /\ wp[m].live
  /\ Finish(Op("WeakPtr(WeakPtr&&)", k, m, FALSE), Heap, sp,
            [wp EXCEPT ![k] = Handle(wp[m].ptr_, wp[m].counter_), ![m] = NullHandle])

\* WeakPtr(const SharedPtr<T>& shared_ptr): weak slot k from strong slot i.
WeakPtr_shared(k, i) ==
  /\ ~aborted
  /\ ~wp[k].live /\ sp[i].live
  /\ LET c == sp[i].counter_
         h1 == IF c # NULL THEN IncWeak(Heap, c) ELSE Heap
     IN Finish(Op("WeakPtr(const SharedPtr&)", k, i, FALSE), h1, sp,
               [wp EXCEPT ![k] = Handle(sp[i].ptr_, c)])

\* Faulty variant of operator=(const SharedPtr&): weak_count of the new
\* Counter is not incremented.
WeakPtr_assign_shared_noincrement(k, i) ==
  /\ ~aborted
  /\ wp[k].live /\ sp[i].live
  /\ Finish(Op("WeakPtr=(const SharedPtr&)", k, i, FALSE),
            WeakRelease(Heap, wp[k]), sp,
            [wp EXCEPT ![k] = Handle(sp[i].ptr_, sp[i].counter_)])

\* WeakPtr& operator=(const SharedPtr<T>& shared_ptr)
WeakPtr_assign_shared(k, i) ==
  /\ ~aborted
  /\ wp[k].live /\ sp[i].live
  /\ LET h1 == WeakRelease(Heap, wp[k])
         c == sp[i].counter_
         h2 == IF c # NULL THEN IncWeak(h1, c) ELSE h1
     IN Finish(Op("WeakPtr=(const SharedPtr&)", k, i, FALSE), h2, sp,
               [wp EXCEPT ![k] = Handle(sp[i].ptr_, c)])

\* WeakPtr& operator=(const WeakPtr& other); this == &other is k = m.
WeakPtr_assign_copy(k, m) ==
  /\ ~aborted
  /\ wp[k].live /\ wp[m].live
  /\ IF k # m
     THEN LET h1 == WeakRelease(Heap, wp[k])
              c == wp[m].counter_
              h2 == IF c # NULL THEN IncWeak(h1, c) ELSE h1
          IN Finish(Op("WeakPtr=(const WeakPtr&)", k, m, FALSE), h2, sp,
                    [wp EXCEPT ![k] = Handle(wp[m].ptr_, c)])
     ELSE Finish(Op("WeakPtr=(const WeakPtr&)", k, m, FALSE), Heap, sp, wp)

\* WeakPtr& operator=(WeakPtr&& other)
WeakPtr_assign_move(k, m) ==
  /\ ~aborted
  /\ wp[k].live /\ wp[m].live
  /\ IF k # m
     THEN Finish(Op("WeakPtr=(WeakPtr&&)", k, m, FALSE), WeakRelease(Heap, wp[k]), sp,
                 [wp EXCEPT ![k] = Handle(wp[m].ptr_, wp[m].counter_),
                            ![m] = NullHandle])
     ELSE Finish(Op("WeakPtr=(WeakPtr&&)", k, m, FALSE), Heap, sp, wp)

\* ~WeakPtr(): the handle of weak slot k ceases to exist.
WeakPtr_dtor(k) ==
  /\ ~aborted
  /\ wp[k].live
  /\ Finish(Op("~WeakPtr", k, 0, FALSE), WeakRelease(Heap, wp[k]), sp,
            [wp EXCEPT ![k] = NoHandle])

\* Faulty variant of WeakPtr::Reset: the fields are cleared without Release().
WeakPtr_Reset_norelease(k) ==
  /\ ~aborted
  /\ wp[k].live
  /\ Finish(Op("WeakPtr::Reset", k, 0, FALSE), Heap, sp, [wp EXCEPT ![k] = NullHandle])

\* void Reset()
WeakPtr_Reset(k) ==
  /\ ~aborted
  /\ wp[k].live
  /\ Finish(Op("WeakPtr::Reset", k, 0, FALSE), WeakRelease(Heap, wp[k]), sp,
            [wp EXCEPT ![k] = NullHandle])

\* void Swap(WeakPtr& other)
WeakPtr_Swap(k, m) ==
  /\ ~aborted
  /\ wp[k].live /\ wp[m].live
  /\ Finish(Op("WeakPtr::Swap", k, m, FALSE), Heap, sp,
            [wp EXCEPT ![k] = wp[m], ![m] = wp[k]])

\* Faulty variant of Lock: the result takes the fields of the WeakPtr without
\* incrementing strong_count.
Lock_noincrement(k, i) ==
  /\ ~aborted
  /\ wp[k].live /\ ~sp[i].live
  /\ IF Expired(Heap, wp[k])
     THEN Finish(Op("WeakPtr::Lock", i, k, FALSE), Heap,
                 [sp EXCEPT ![i] = NullHandle], wp)
     ELSE Finish(Op("WeakPtr::Lock", i, k, FALSE), Heap,
                 [sp EXCEPT ![i] = Handle(wp[k].ptr_, wp[k].counter_)], wp)

\* Faulty variant of Lock: only a null counter_ is taken as expired, so a
\* WeakPtr whose object is gone is promoted.
Lock_counter_test(k, i) ==
  /\ ~aborted
  /\ wp[k].live /\ ~sp[i].live
  /\ IF wp[k].counter_ = NULL
     THEN Finish(Op("WeakPtr::Lock", i, k, FALSE), Heap,
                 [sp EXCEPT ![i] = NullHandle], wp)
     ELSE Finish(Op("WeakPtr::Lock", i, k, FALSE),
                 IncStrong(Heap, wp[k].counter_),
                 [sp EXCEPT ![i] = Handle(wp[k].ptr_, wp[k].counter_)], wp)

\* Faulty variant of Lock: it calls the throwing constructor without
\* testing Expired() itself.
Lock_unguarded(k, i) ==
  /\ ~aborted
  /\ wp[k].live /\ ~sp[i].live
  /\ IF Expired(Heap, wp[k])
     THEN Finish(Op("WeakPtr::Lock", i, k, TRUE), Heap, sp, wp)
     ELSE Finish(Op("WeakPtr::Lock", i, k, FALSE),
                 IncStrong(Heap, wp[k].counter_),
                 [sp EXCEPT ![i] = Handle(wp[k].ptr_, wp[k].counter_)], wp)

\* SharedPtr<T> Lock() const on weak slot k, the result constructed in
\* strong slot i: SharedPtr<T>() when Expired(), else SharedPtr<T>(*this),
\* the constructor of SharedPtr_weak, which tests Expired() again.
Lock(k, i) ==
  /\ ~aborted
  /\ wp[k].live /\ ~sp[i].live
  /\ IF Expired(Heap, wp[k])
     THEN Finish(Op("WeakPtr::Lock", i, k, FALSE), Heap,
                 [sp EXCEPT ![i] = NullHandle], wp)
     ELSE IF Expired(Heap, wp[k])
          THEN Finish(Op("WeakPtr::Lock", i, k, TRUE), Heap, sp, wp)
          ELSE Finish(Op("WeakPtr::Lock", i, k, FALSE),
                      IncStrong(Heap, wp[k].counter_),
                      [sp EXCEPT ![i] = Handle(wp[k].ptr_, wp[k].counter_)], wp)

\* ------------------------------------------------------------------- Next
Next ==
  \/ \E i \in SH : SharedPtr_default(i)
  \/ \E i \in SH, fresh \in BOOLEAN : SharedPtr_ptr(i, fresh)
  \/ \E i \in SH : MakeShared(i)
  \/ \E i, j \in SH : SharedPtr_copy(i, j)
  \/ \E i, j \in SH : SharedPtr_move(i, j)
  \/ \E i \in SH, k \in WH : SharedPtr_weak(i, k)
  \/ \E i \in SH, k \in WH : SharedPtr_assign_weak(i, k)
  \/ \E i, j \in SH : SharedPtr_assign_copy(i, j)
  \/ \E i, j \in SH : SharedPtr_assign_move(i, j)
  \/ \E i \in SH : SharedPtr_dtor(i)
  \/ \E i \in SH, arg \in {"null", "new", "same"} : SharedPtr_Reset(i, arg)
  \/ \E i, j \in SH : SharedPtr_Swap(i, j)
  \/ \E k \in WH : WeakPtr_default(k)
  \/ \E k, m \in WH : WeakPtr_copy(k, m)
  \/ \E k, m \in WH : WeakPtr_move(k, m)
  \/ \E k \in WH, i \in SH : WeakPtr_shared(k, i)
  \/ \E k \in WH, i \in SH : WeakPtr_assign_shared(k, i)
  \/ \E k, m \in WH : WeakPtr_assign_copy(k, m)
  \/ \E k, m \in WH : WeakPtr_assign_move(k, m)
  \/ \E k \in WH : WeakPtr_dtor(k)
  \/ \E k \in WH : WeakPtr_Reset(k)
  \/ \E k, m \in WH : WeakPtr_Swap(k, m)
  \/ \E k \in WH, i \in SH : Lock(k, i)

Spec == Init /\ [][Next]_vars

\* ------------------------------------- objects with a WeakPtr data member
\* sp[i]->self = sp[j]: WeakPtr::operator=(const SharedPtr<T>&) on the data
\* member self of the object that SharedPtr slot i owns.
Self_assign_shared(i, j) ==
  /\ ~aborted
  /\ sp[i].live /\ sp[j].live
  /\ sp[i].ptr_ # NULL
  /\ objs[sp[i].ptr_].state = "alive"
  /\ LET o == sp[i].ptr_
         h1 == WeakRelease(Heap, objs[o].self)
         c == sp[j].counter_
         h2 == IF c # NULL THEN IncWeak(h1, c) ELSE h1
     IN Finish(Op("self=(const SharedPtr&)", i, j, FALSE),
               [h2 EXCEPT !.objs[o].self = Handle(sp[j].ptr_, c)], sp, wp)

\* The client program also uses the WeakPtr members of its objects.
NextMember ==
  \/ Next
  \/ \E i, j \in SH : Self_assign_shared(i, j)

SpecMember == Init /\ [][NextMember]_vars

\* ================================================================ claims
\* The operations have completed: the process was not terminated inside one.
Running == ~aborted

\* The heap of the state after the step.
HeapNext == [objs |-> objs', ctrs |-> ctrs', ub |-> FALSE]

\* The live handles whose counter_ is Counter c.
StrongOn(c) == {i \in SH : sp[i].live /\ sp[i].counter_ = c}
WeakOn(c) == {k \in WH : wp[k].live /\ wp[k].counter_ = c}

PromotionOps == {"SharedPtr(const WeakPtr&)", "SharedPtr=(const WeakPtr&)"}

\* C1: no step deletes an object a second time; an object is deleted only
\* in a step that takes the strong_count of a Counter from 1 to 0, and after
\* that step no live SharedPtr refers to the object.
C1_DestroyedExactlyOnce ==
  [][\A o \in Obj :
       /\ ~objs'[o].redeleted
       /\ (objs[o].state = "alive" /\ objs'[o].state = "deleted") =>
            /\ \E c \in Blk : /\ ctrs[c].state = "alloc"
                              /\ ctrs[c].strong_count = 1
                              /\ ctrs'[c].strong_count = 0
            /\ \A i \in SH : sp'[i].live => sp'[i].ptr_ # o]_vars

\* C2: in every state each live SharedPtr with Get() != nullptr refers to an
\* object that has not been deleted.
C2_StrongHandleObjectAlive ==
  \A i \in SH : (sp[i].live /\ Get(sp[i]) # NULL) => objs[Get(sp[i])].state = "alive"

\* C3: for every allocated Counter, strong_count is the number of live
\* SharedPtr whose counter_ is that Counter, and UseCount() of each of them
\* returns that number.
C3_StrongCountIsHandleCount ==
  Running =>
    \A c \in Blk : ctrs[c].state = "alloc" =>
      /\ ctrs[c].strong_count = Cardinality(StrongOn(c))
      /\ \A i \in StrongOn(c) : UseCount(Heap, sp[i]) = Cardinality(StrongOn(c))

\* A copy assignment has just made two SharedPtr share one Counter.
C3_Witness ==
  /\ Running
  /\ last.op = "SharedPtr=(const SharedPtr&)"
  /\ \E c \in Blk : ctrs[c].state = "alloc" /\ Cardinality(StrongOn(c)) = 2

\* C4: for every allocated Counter, weak_count is the number of live WeakPtr
\* whose counter_ is that Counter.
C4_WeakCountIsHandleCount ==
  Running =>
    \A c \in Blk : ctrs[c].state = "alloc" =>
      ctrs[c].weak_count = Cardinality(WeakOn(c))

\* A WeakPtr assignment from a SharedPtr has just made two WeakPtr observe
\* one Counter.
C4_Witness ==
  /\ Running
  /\ last.op = "WeakPtr=(const SharedPtr&)"
  /\ \E c \in Blk : ctrs[c].state = "alloc" /\ Cardinality(WeakOn(c)) = 2

C6_ExpiredNeverRevived ==
  \A c \in Blk : ctrs[c].reachedZero => ctrs[c].strong_count = 0

\* C7: constructing or assigning a SharedPtr from an expired WeakPtr throws
\* BadWeakPtr and changes no handle, no Counter and no object.
C7_ExpiredPromotionThrows ==
  [][(last'.op \in PromotionOps /\ Expired(Heap, wp[last'.src])) =>
       /\ last'.raised
       /\ UNCHANGED <<sp, wp, objs, ctrs>>
       /\ ~aborted']_vars

\* An assignment from an expired WeakPtr has thrown, and the target still
\* owns its object.
C7_Witness ==
  /\ last.op = "SharedPtr=(const WeakPtr&)"
  /\ last.raised
  /\ sp[last.dst].counter_ # NULL
  /\ wp[last.src].counter_ # NULL

\* C8: after a SharedPtr was constructed or assigned from a non-expired
\* WeakPtr w, its Get() is w's object, it shares w's Counter, the object is
\* not deleted and w.Expired() is false.
C8_PromotionSharesLiveObject ==
  (last.op \in PromotionOps /\ ~last.raised) =>
    LET t == sp[last.dst]
        w == wp[last.src]
    IN /\ t.live
       /\ Get(t) = w.ptr_
       /\ t.counter_ = w.counter_
       /\ objs[Get(t)].state = "alive"
       /\ ~Expired(Heap, w)

\* C9: a step in which the strong_count of a Counter with weak_count > 0
\* reaches 0 leaves the Counter allocated; and while such a Counter is
\* allocated every WeakPtr on it has a deleted object, Expired() true and
\* UseCount() 0.
C9_LastStrongReleaseExpiresWeak ==
  [][\A c \in Blk :
       /\ (ctrs[c].state = "alloc" /\ ctrs[c].weak_count > 0
           /\ ~ctrs[c].reachedZero /\ ctrs'[c].reachedZero) =>
            ctrs'[c].state = "alloc"
       /\ (ctrs'[c].reachedZero /\ ctrs'[c].state = "alloc") =>
            \A k \in WH : (wp'[k].live /\ wp'[k].counter_ = c) =>
               /\ objs'[wp'[k].ptr_].state = "deleted"
               /\ Expired(HeapNext, wp'[k])
               /\ UseCount(HeapNext, wp'[k]) = 0]_vars

\* C10: Lock() on a non-expired WeakPtr does not throw and returns a
\* SharedPtr with the WeakPtr's object and Counter, Get() != nullptr;
\* strong_count of that Counter grows by one and nothing else changes.
C10_LockNonExpired ==
  [][(last'.op = "WeakPtr::Lock" /\ ~Expired(Heap, wp[last'.src])) =>
       LET w == wp[last'.src]
           c == w.counter_
       IN /\ ~last'.raised
          /\ sp' = [sp EXCEPT ![last'.dst] = Handle(w.ptr_, c)]
          /\ Get(sp'[last'.dst]) # NULL
          /\ ctrs' = [ctrs EXCEPT ![c].strong_count = @ + 1]
          /\ UNCHANGED <<wp, objs>>]_vars

\* Lock() has returned a second owner of a live object.
C10_Witness ==
  /\ last.op = "WeakPtr::Lock"
  /\ sp[last.dst].live
  /\ sp[last.dst].counter_ # NULL
  /\ ctrs[sp[last.dst].counter_].strong_count = 2
  /\ objs[sp[last.dst].ptr_].state = "alive"

\* C11: Lock() on an expired WeakPtr (null, or strong_count 0) does not
\* throw and returns a null SharedPtr (Get() nullptr, UseCount() 0); no
\* Counter, object or other handle changes.
C11_LockExpired ==
  [][(last'.op = "WeakPtr::Lock" /\ Expired(Heap, wp[last'.src])) =>
       /\ ~last'.raised
       /\ sp' = [sp EXCEPT ![last'.dst] = NullHandle]
       /\ Get(sp'[last'.dst]) = NULL
       /\ UseCount(HeapNext, sp'[last'.dst]) = 0
       /\ UNCHANGED <<wp, objs, ctrs>>]_vars

\* Lock() on a WeakPtr whose object is gone has returned a null SharedPtr.
C11_Witness ==
  /\ last.op = "WeakPtr::Lock"
  /\ sp[last.dst] = NullHandle
  /\ wp[last.src].counter_ # NULL
  /\ ctrs[wp[last.src].counter_].strong_count = 0

ResetOps == {"SharedPtr::Reset(nullptr)", "SharedPtr::Reset(Get())", "SharedPtr::Reset(new T)"}

\* The step ran the strong release protocol on handle x: strong_count of
\* its Counter went down by one; if it reached 0 the object was deleted and
\* the Counter was deleted exactly when weak_count was 0.
StrongReleased(x) ==
  x.counter_ # NULL =>
    LET c == x.counter_
    IN /\ ctrs'[c].strong_count = ctrs[c].strong_count - 1
       /\ ctrs'[c].weak_count = ctrs[c].weak_count
       /\ ctrs'[c].strong_count = 0 =>
            /\ objs'[x.ptr_].state = "deleted"
            /\ ctrs'[c].state = "freed" <=> ctrs[c].weak_count = 0
       /\ ctrs'[c].strong_count # 0 =>
            /\ objs'[x.ptr_] = objs[x.ptr_]
            /\ ctrs'[c].state = "alloc"

\* After the step, SharedPtr slot i holds object p with a Counter that did
\* not exist before the step and has strong_count 1 and weak_count 0.
AdoptedFresh(i, p) ==
  /\ sp'[i].live
  /\ Get(sp'[i]) = p
  /\ sp'[i].counter_ # NULL
  /\ ctrs[sp'[i].counter_].state = "unalloc"
  /\ ctrs'[sp'[i].counter_].state = "alloc"
  /\ ctrs'[sp'[i].counter_].strong_count = 1
  /\ ctrs'[sp'[i].counter_].weak_count = 0
  /\ UseCount(HeapNext, sp'[i]) = 1

\* C12: a Reset(p) that returns, with p non-null, has run the release
\* protocol on the handle's previous Counter and leaves the handle with p
\* and a freshly allocated Counter (strong_count 1, weak_count 0,
\* UseCount() 1), whatever the handle held before, also when p is its own
\* Get(); Reset() with no argument leaves the handle null.
C12_ResetAdoptsFresh ==
  [][(last'.op \in ResetOps /\ ~aborted') =>
       IF last'.src # NULL
       THEN /\ AdoptedFresh(last'.dst, last'.src)
            /\ StrongReleased(sp[last'.dst])
       ELSE sp'[last'.dst] = NullHandle]_vars

\* C12 as amended: the same for p different from the handle's Get(); a
\* Reset(p) with p equal to the handle's Get() changes nothing.
C12_ResetAdoptsFreshUnlessSame ==
  [][(last'.op \in ResetOps /\ ~aborted') =>
       IF last'.src = NULL
       THEN sp'[last'.dst] = NullHandle
       ELSE IF last'.src # Get(sp[last'.dst])
            THEN /\ AdoptedFresh(last'.dst, last'.src)
                 /\ StrongReleased(sp[last'.dst])
            ELSE UNCHANGED <<sp, wp, objs, ctrs>>]_vars

\* Reset(new T) has returned on a handle while another SharedPtr still owns
\* a live object with its own Counter.
C12_Witness ==
  /\ Running
  /\ last.op = "SharedPtr::Reset(new T)"
  /\ Get(sp[last.dst]) = last.src
  /\ ctrs[sp[last.dst].counter_].strong_count = 1
  /\ \E j \in SH : /\ sp[j].live /\ sp[j].counter_ # NULL
                   /\ sp[j].counter_ # sp[last.dst].counter_
                   /\ objs[sp[j].ptr_].state = "alive"

StrongMoveOps == {"SharedPtr(SharedPtr&&)", "SharedPtr=(SharedPtr&&)"}
WeakMoveOps == {"WeakPtr(WeakPtr&&)", "WeakPtr=(WeakPtr&&)"}

\* The step ran the weak release protocol on handle x: weak_count of its
\* Counter went down by one, and the Counter was deleted exactly when both
\* counts are 0 then.
WeakReleased(x) ==
  x.counter_ # NULL =>
    LET c == x.counter_
    IN /\ ctrs'[c].weak_count = ctrs[c].weak_count - 1
       /\ ctrs'[c].strong_count = ctrs[c].strong_count
       /\ ctrs'[c].state = "freed" <=>
            (ctrs'[c].weak_count = 0 /\ ctrs'[c].strong_count = 0)

\* C13: a move construction or move assignment between two distinct handles
\* that returns leaves the source null (Get() nullptr, UseCount() 0) and
\* the destination with the source's object and Counter; the destination's
\* previous Counter undergoes one release and every other Counter, the
\* source's included when it is another one, keeps its counts.
C13_MoveTransfers ==
  [][(last'.dst # last'.src /\ ~aborted') =>
       LET d == last'.dst
           s == last'.src
       IN /\ last'.op \in StrongMoveOps =>
               /\ sp'[s] = NullHandle
               /\ Get(sp'[s]) = NULL /\ UseCount(HeapNext, sp'[s]) = 0
               /\ sp' = [sp EXCEPT ![d] = Handle(sp[s].ptr_, sp[s].counter_),
                                   ![s] = NullHandle]
               /\ wp' = wp
               /\ StrongReleased(sp[d])
               /\ \A c \in Blk : c # sp[d].counter_ => ctrs'[c] = ctrs[c]
               /\ \A o \in Obj : o # sp[d].ptr_ => objs'[o] = objs[o]
          /\ last'.op \in WeakMoveOps =>
               /\ wp'[s] = NullHandle
               /\ UseCount(HeapNext, wp'[s]) = 0
               /\ wp' = [wp EXCEPT ![d] = Handle(wp[s].ptr_, wp[s].counter_),
                                   ![s] = NullHandle]
               /\ sp' = sp
               /\ WeakReleased(wp[d])
               /\ \A c \in Blk : c # wp[d].counter_ => ctrs'[c] = ctrs[c]
               /\ objs' = objs]_vars

\* A move assignment has transferred a live object to a SharedPtr whose
\* previous object was deleted by the release, and left the source null.
C13_Witness ==
  /\ Running
  /\ last.op = "SharedPtr=(SharedPtr&&)"
  /\ last.dst # last.src
  /\ sp[last.src] = NullHandle
  /\ sp[last.dst].counter_ # NULL
  /\ ctrs[sp[last.dst].counter_].strong_count = 1
  /\ objs[sp[last.dst].ptr_].state = "alive"
  /\ \E c \in Blk : ctrs[c].state = "freed"
  /\ \A o \in Obj : ~objs[o].redeleted

SameTypeAssignOps ==
  {"SharedPtr=(const SharedPtr&)", "SharedPtr=(SharedPtr&&)",
   "WeakPtr=(const WeakPtr&)", "WeakPtr=(WeakPtr&&)"}

\* C14: assigning a handle from itself, by copy or by move, SharedPtr or
\* WeakPtr, changes no handle, no Counter and no object, and deletes
\* nothing.
C14_SelfAssignmentNoOp ==
  [][(last'.op \in SameTypeAssignOps /\ last'.dst = last'.src) =>
       /\ UNCHANGED <<sp, wp, objs, ctrs>>
       /\ ~last'.raised
       /\ ~aborted']_vars

\* A SharedPtr that is the sole owner of a live object has been
\* move-assigned from itself.
C14_Witness ==
  /\ last.op = "SharedPtr=(SharedPtr&&)"
  /\ last.dst = last.src
  /\ sp[last.dst].counter_ # NULL
  /\ ctrs[sp[last.dst].counter_].strong_count = 1
  /\ objs[sp[last.dst].ptr_].state = "alive"

\* C15: a member function throws BadWeakPtr only if it is the SharedPtr
\* constructor or assignment from a WeakPtr and that WeakPtr is expired;
\* every other member function, Lock included, returns without throwing.
C15_OnlyExpiredPromotionThrows ==
  [][last'.raised =>
       /\ last'.op \in PromotionOps
       /\ Expired(Heap, wp[last'.src])]_vars

\* The SharedPtr constructor has thrown on a WeakPtr whose object is gone.
C15_Witness ==
  /\ last.op = "SharedPtr(const WeakPtr&)"
  /\ last.raised
  /\ ~sp[last.dst].live
  /\ wp[last.src].counter_ # NULL
  /\ ctrs[wp[last.src].counter_].strong_count = 0

\* The member functions that leave the SharedPtr last.dst null, and those
\* that leave the WeakPtr last.dst null.
NullStrongResult ==
  \/ last.op = "SharedPtr()"
  \/ last.op = "SharedPtr(T*)" /\ last.src = NULL
  \/ last.op = "SharedPtr::Reset(nullptr)"
NullWeakResult == last.op \in {"WeakPtr()", "WeakPtr::Reset"}

\* C16: every live SharedPtr and WeakPtr has ptr_ and counter_ both null or
\* both non-null; a handle that was default-constructed, constructed from
\* nullptr, moved from or reset to nullptr is null; a null handle is the
\* counter_ of no Counter, its UseCount() is 0, and operator bool of a
\* SharedPtr is true exactly when counter_ is non-null.
C16_NullTogether ==
  Running =>
    /\ \A i \in SH : sp[i].live =>
         /\ sp[i].ptr_ = NULL <=> sp[i].counter_ = NULL
         /\ Bool(sp[i]) <=> sp[i].counter_ # NULL
         /\ Get(sp[i]) = NULL =>
              /\ UseCount(Heap, sp[i]) = 0
              /\ \A c \in Blk : i \notin StrongOn(c)
    /\ \A k \in WH : wp[k].live =>
         /\ wp[k].ptr_ = NULL <=> wp[k].counter_ = NULL
         /\ wp[k].ptr_ = NULL =>
              /\ UseCount(Heap, wp[k]) = 0
              /\ Expired(Heap, wp[k])
              /\ \A c \in Blk : k \notin WeakOn(c)
    /\ NullStrongResult => sp[last.dst] = NullHandle
    /\ NullWeakResult => wp[last.dst] = NullHandle
    /\ last.op = "SharedPtr(SharedPtr&&)" => sp[last.src] = NullHandle
    /\ (last.op = "SharedPtr=(SharedPtr&&)" /\ last.dst # last.src) =>
         sp[last.src] = NullHandle
    /\ last.op = "WeakPtr(WeakPtr&&)" => wp[last.src] = NullHandle
    /\ (last.op = "WeakPtr=(WeakPtr&&)" /\ last.dst # last.src) =>
         wp[last.src] = NullHandle

\* A move construction has left its source null beside a destination that
\* owns an object, while a null WeakPtr is live too.
C16_Witness ==
  /\ Running
  /\ last.op = "SharedPtr(SharedPtr&&)"
  /\ sp[last.src] = NullHandle
  /\ sp[last.dst].counter_ # NULL
  /\ ctrs[sp[last.dst].counter_].strong_count = 1
  /\ \E k \in WH : wp[k] = NullHandle

WeakFromSharedOps == {"WeakPtr(const SharedPtr&)", "WeakPtr=(const SharedPtr&)"}

\* C17: a WeakPtr constructed or assigned from a non-null SharedPtr takes its
\* object and Counter; weak_count of that Counter is one more than after the
\* release of the WeakPtr's previous Counter, strong_count is unchanged, no
\* object changes and the previous Counter, when it is another one,
\* undergoes one weak release. In every step that takes strong_count of an
\* allocated Counter from a positive value to 0 the object of its SharedPtr
\* is deleted, whatever weak_count is.
C17_WeakFromShared ==
  [][/\ (last'.op \in WeakFromSharedOps /\ sp[last'.src].counter_ # NULL) =>
          LET c == sp[last'.src].counter_
              old == wp[last'.dst]
              same == old.live /\ old.counter_ = c
          IN /\ ~aborted' /\ ~last'.raised
             /\ wp'[last'.dst] = Handle(sp[last'.src].ptr_, c)
             /\ sp' = sp /\ objs' = objs
             /\ ctrs'[c].state = "alloc"
             /\ ctrs'[c].strong_count = ctrs[c].strong_count
             /\ ctrs'[c].weak_count =
                  ctrs[c].weak_count + 1 - (IF same THEN 1 ELSE 0)
             /\ (old.live /\ ~same) => WeakReleased(old)
     /\ \A c \in Blk :
          (ctrs[c].state = "alloc" /\ ctrs[c].strong_count > 0
             /\ ctrs'[c].strong_count = 0) =>
            \A i \in StrongOn(c) : objs'[sp[i].ptr_].state = "deleted"]_vars

\* An assignment from a SharedPtr has made a second WeakPtr on its Counter
\* after releasing the last reference to a Counter whose object had been
\* destroyed while that WeakPtr still observed it.
C17_Witness ==
  /\ Running
  /\ last.op = "WeakPtr=(const SharedPtr&)"
  /\ wp[last.dst].counter_ # NULL
  /\ ctrs[wp[last.dst].counter_].weak_count = 2
  /\ ctrs[wp[last.dst].counter_].strong_count = 1
  /\ \E c \in Blk : ctrs[c].state = "freed" /\ ~ctrs[c].refreed
  /\ \A o \in Obj : ~objs[o].redeleted

\* The slots a with the handles of slots d and s exchanged.
Exchanged(a, d, s) == [a EXCEPT ![d] = a[s], ![s] = a[d]]

\* C18: Swap of two SharedPtr or of two WeakPtr exchanges ptr_ and counter_
\* of the two handles and changes nothing else: no count, no Counter, no
\* object, no other handle; it does not throw; swapping the result again, in
\* either order of the pair, gives the handles of before, and a handle
\* swapped with itself is unchanged.
C18_SwapExchanges ==
  [][/\ last'.op = "SharedPtr::Swap" =>
          /\ sp' = Exchanged(sp, last'.dst, last'.src)
          /\ Exchanged(sp', last'.dst, last'.src) = sp
          /\ Exchanged(sp', last'.src, last'.dst) = sp
          /\ last'.dst = last'.src => sp' = sp
          /\ UNCHANGED <<wp, objs, ctrs>>
          /\ ~last'.raised /\ ~aborted'
     /\ last'.op = "WeakPtr::Swap" =>
          /\ wp' = Exchanged(wp, last'.dst, last'.src)
          /\ Exchanged(wp', last'.dst, last'.src) = wp
          /\ Exchanged(wp', last'.src, last'.dst) = wp
          /\ last'.dst = last'.src => wp' = wp
          /\ UNCHANGED <<sp, objs, ctrs>>
          /\ ~last'.raised /\ ~aborted']_vars

\* Two SharedPtr that own different objects have been swapped.
C18_Witness ==
  /\ last.op = "SharedPtr::Swap"
  /\ last.dst # last.src
  /\ sp[last.dst].counter_ # NULL /\ sp[last.src].counter_ # NULL
  /\ sp[last.dst].counter_ # sp[last.src].counter_
  /\ sp[last.dst].ptr_ # sp[last.src].ptr_

\* C19: in a step that destroys an object whose member self is the only
\* WeakPtr of the object's own Counter, during the release of the only
\* SharedPtr of that Counter, the Counter is deleted, it is not deleted a
\* second time, and it is not accessed after it was deleted.
C19_MemberReleaseSafe ==
  [][\A o \in Obj :
       LET c == objs[o].self.counter_
       IN (/\ objs[o].state = "alive"
           /\ objs[o].self.ptr_ = o
           /\ c # NULL
           /\ ctrs[c].state = "alloc"
           /\ ctrs[c].strong_count = 1
           /\ ctrs[c].weak_count = 1
           /\ objs'[o].state = "deleted") =>
            /\ ctrs'[c].state = "freed"
            /\ ~ctrs'[c].refreed
            /\ ~ctrs'[c].uaf]_vars

\* C20: no decrement of strong_count or of weak_count is ever applied to a
\* count that is 0, inside a step or at its end, so that no count of any
\* Counter, allocated or deleted, is ever below 0 (wrapped to SIZE_MAX).
C20_NoUnderflow ==
  \A c \in Blk :
    /\ ~ctrs[c].underflow
    /\ ctrs[c].strong_count >= 0
    /\ ctrs[c].weak_count >= 0

\* A WeakPtr has been assigned from another one and both now share a
\* Counter whose object is gone, while another Counter has gone through
\* its releases down to 0 and 0 and has been deleted.
C20_Witness ==
  /\ Running
  /\ last.op = "WeakPtr=(const WeakPtr&)"
  /\ last.dst # last.src
  /\ wp[last.dst].counter_ # NULL
  /\ wp[last.dst].counter_ = wp[last.src].counter_
  /\ ctrs[wp[last.dst].counter_].weak_count = 2
  /\ ctrs[wp[last.dst].counter_].strong_count = 0
  /\ \E c \in Blk : ctrs[c].state = "freed" /\ ctrs[c].reachedZero

====
